---- MODULE Spec2Model ----
(***************************************************************************)
(* HyperLogLog (src/src/algorithms/hyperLogLog.py) and SpectralBloomFilter *)
(* (src/src/algorithms/SpectralBloomFilter.py) as one state machine.       *)
(*                                                                         *)
(* Each of the two files is a script of its own: a run constructs one      *)
(* estimator, inserts a stream of elements into it and queries it.         *)
(*                                                                         *)
(* Numbers.  Python's int is unbounded and the 128-bit md5 digest does not *)
(* fit a machine word, so a digest is the set of its set bit positions     *)
(* (bit 0 the least significant) and large naturals are digit sequences in *)
(* base 2^15 (little-endian, no leading zero digit).  A Python float is an *)
(* IEEE 754 binary64 number, kept as sign, odd mantissa and exponent; each *)
(* arithmetic operation is the exact one followed by rounding to 53 bits,  *)
(* as the interpreter does it.  math.log, np.exp and ** are functions of   *)
(* the C library, whose result is a float next to the exact value and not  *)
(* always the nearest: each of them is the set of the floats a library     *)
(* can return, and a call returns one of them.  Builtin sum() adds floats  *)
(* plainly or with a compensation of the rounding errors, by the version   *)
(* of the interpreter: its result is the set of the sums of the versions.  *)
(***************************************************************************)
EXTENDS Integers, Sequences, FiniteSets, TLC

VARIABLES script, md5, mmh3, hll, sbf, stream, call, ret

vars == <<script, md5, mmh3, hll, sbf, stream, call, ret>>

None == "None"

Max(a, b) == IF a >= b THEN a ELSE b

Min(a, b) == IF a <= b THEN a ELSE b

(***************************************************************************)
(* Unbounded naturals (Python int / the exact value of a float).           *)
(***************************************************************************)
Base == 2^15

RECURSIVE BigNorm(_)
BigNorm(a) ==
    IF a = <<>> THEN <<>>
    ELSE IF a[Len(a)] = 0 THEN BigNorm(SubSeq(a, 1, Len(a) - 1))
    ELSE a

RECURSIVE BigFromNat(_)
BigFromNat(n) ==
    IF n = 0 THEN <<>> ELSE <<n % Base>> \o BigFromNat(n \div Base)

BigDigit(a, i) == IF i <= Len(a) THEN a[i] ELSE 0

RECURSIVE BigAddC(_, _, _, _)
BigAddC(a, b, i, carry) ==
    IF i > Len(a) /\ i > Len(b)
    THEN (IF carry = 0 THEN <<>> ELSE <<carry>>)
    ELSE LET s == BigDigit(a, i) + BigDigit(b, i) + carry
         IN  <<s % Base>> \o BigAddC(a, b, i + 1, s \div Base)

BigAdd(a, b) == BigAddC(a, b, 1, 0)

RECURSIVE BigSubB(_, _, _, _)
BigSubB(a, b, i, borrow) ==
    IF i > Len(a) THEN <<>>
    ELSE LET s == BigDigit(a, i) - BigDigit(b, i) - borrow
         IN  IF s < 0 THEN <<s + Base>> \o BigSubB(a, b, i + 1, 1)
             ELSE <<s>> \o BigSubB(a, b, i + 1, 0)

\* a - b for a >= b
BigSub(a, b) == BigNorm(BigSubB(a, b, 1, 0))

RECURSIVE BigCmpFrom(_, _, _)
BigCmpFrom(a, b, i) ==
    IF i = 0 THEN 0
    ELSE IF a[i] < b[i] THEN -1
    ELSE IF a[i] > b[i] THEN 1
    ELSE BigCmpFrom(a, b, i - 1)

\* -1, 0, 1 as a < b, a = b, a > b
BigCmp(a, b) ==
    IF Len(a) < Len(b) THEN -1
    ELSE IF Len(a) > Len(b) THEN 1
    ELSE BigCmpFrom(a, b, Len(a))

RECURSIVE BigMulDigitC(_, _, _, _)
BigMulDigitC(a, d, i, carry) ==
    IF i > Len(a)
    THEN (IF carry = 0 THEN <<>> ELSE <<carry>>)
    ELSE LET s == a[i] * d + carry
         IN  <<s % Base>> \o BigMulDigitC(a, d, i + 1, s \div Base)

BigMulDigit(a, d) == IF d = 0 THEN <<>> ELSE BigMulDigitC(a, d, 1, 0)

BigShiftDigits(a, n) ==
    IF a = <<>> THEN <<>> ELSE [i \in 1..n |-> 0] \o a

RECURSIVE BigMulFrom(_, _, _)
BigMulFrom(a, b, i) ==
    IF i > Len(b) THEN <<>>
    ELSE BigAdd(BigShiftDigits(BigMulDigit(a, b[i]), i - 1),
                BigMulFrom(a, b, i + 1))

BigMul(a, b) == BigMulFrom(a, b, 1)

\* 2 ** e
BigPow2(e) == [i \in 1..(e \div 15) |-> 0] \o <<2^(e % 15)>>

RECURSIVE NatBitLen(_)
NatBitLen(n) == IF n = 0 THEN 0 ELSE 1 + NatBitLen(n \div 2)

\* int.bit_length()
BigBitLen(a) ==
    IF a = <<>> THEN 0 ELSE 15 * (Len(a) - 1) + NatBitLen(a[Len(a)])

\* a * 2^n
BigShl(a, n) == BigShiftDigits(BigMulDigit(a, 2^(n % 15)), n \div 15)

\* a >> n
BigShr(a, n) ==
    LET k == n \div 15
        t == n % 15
    IN  IF k >= Len(a) THEN <<>>
        ELSE BigNorm(SubSeq([i \in 1..(Len(a) - k) |->
                 (a[i + k] \div 2^t) + (BigDigit(a, i + k + 1) % 2^t) * 2^(15 - t)],
                 1, Len(a) - k))

\* bit i of a is set
BigBit(a, i) == (BigDigit(a, i \div 15 + 1) \div 2^(i % 15)) % 2 = 1

\* the low n bits of a are all zero
BigLowZero(a, n) ==
    /\ \A j \in 1..Min(n \div 15, Len(a)) : a[j] = 0
    /\ BigDigit(a, n \div 15 + 1) % 2^(n % 15) = 0

RECURSIVE NatTrailingZeros(_)
NatTrailingZeros(n) == IF n % 2 = 1 THEN 0 ELSE 1 + NatTrailingZeros(n \div 2)

\* the number of trailing zero bits of a > 0
BigTrailingZeros(a) ==
    LET j == CHOOSE j \in 1..Len(a) : a[j] # 0 /\ \A i \in 1..(j - 1) : a[i] = 0
    IN  15 * (j - 1) + NatTrailingZeros(a[j])

\* a // Base^n
BigDropDigits(a, n) == IF Len(a) <= n THEN <<>> ELSE SubSeq(a, n + 1, Len(a))

RECURSIVE BigDivSmallFrom(_, _, _, _, _)
\* short division of the digits i, i - 1, .. 1 of a, given the remainder and
\* the quotient digits so far
BigDivSmallFrom(a, s, i, rem, q) ==
    IF i = 0 \/ rem + Len(q) < 0 THEN q
    ELSE LET cur == rem * Base + a[i]
         IN  BigDivSmallFrom(a, s, i - 1, cur % s, <<cur \div s>> \o q)

\* a // s for 0 < s < Base
BigDivSmall(a, s) == BigNorm(BigDivSmallFrom(a, s, Len(a), 0, <<>>))

RECURSIVE QuotFix(_, _, _)
\* the largest q <= qhat with d * q <= cur
QuotFix(cur, d, qhat) ==
    IF qhat > 0 /\ BigCmp(BigMulDigit(d, qhat), cur) > 0
    THEN QuotFix(cur, d, qhat - 1)
    ELSE qhat

\* cur // d for cur < d * Base, d with its top digit >= Base / 2
QuotDigit(cur, d) ==
    IF Len(cur) < Len(d) THEN 0
    ELSE LET top == IF Len(cur) > Len(d)
                    THEN cur[Len(d) + 1] * Base + cur[Len(d)]
                    ELSE cur[Len(d)]
         IN  QuotFix(cur, d, Min(Base - 1, top \div d[Len(d)]))

RECURSIVE DivDigits(_, _, _, _, _)
\* long division of the digits i, i - 1, .. 1 of n, given the remainder and
\* the quotient digits so far
DivDigits(n, d, i, rem, q) ==
    IF i = 0 \/ Len(rem) + Len(q) < 0 THEN [q |-> q, r |-> rem]
    ELSE LET cur == BigNorm(<<n[i]>> \o rem)
             qd == QuotDigit(cur, d)
         IN  DivDigits(n, d, i - 1, BigSub(cur, BigMulDigit(d, qd)), <<qd>> \o q)

\* divmod(n, d) for d > 0
BigDivMod(n, d) ==
    LET t == 15 - NatBitLen(d[Len(d)])
        nn == BigShl(n, t)
        res == DivDigits(nn, BigShl(d, t), Len(nn), <<>>, <<>>)
        short == BigDivSmall(n, d[1])
    IN  IF Len(d) = 1 THEN [q |-> short, r |-> BigSub(n, BigMulDigit(short, d[1]))]
        ELSE [q |-> BigNorm(res.q), r |-> BigShr(res.r, t)]

RECURSIVE BigPowFrom(_, _, _)
\* acc * a ** k for k >= 0
BigPowFrom(a, k, acc) ==
    IF k = 0 \/ Len(acc) < 0 THEN acc ELSE BigPowFrom(a, k - 1, BigMul(acc, a))

\* a ** k for k >= 0
BigPow(a, k) == BigPowFrom(a, k, <<1>>)

\* the sum of two signed integers, each a sign and a magnitude
SignedAdd(aneg, a, bneg, b) ==
    IF aneg = bneg THEN [neg |-> aneg, mag |-> BigAdd(a, b)]
    ELSE IF BigCmp(a, b) >= 0 THEN [neg |-> aneg, mag |-> BigSub(a, b)]
    ELSE [neg |-> bneg, mag |-> BigSub(b, a)]

(***************************************************************************)
(* float: an IEEE 754 binary64 number.  A finite float is                  *)
(* (-1)^neg * mant * 2^exp with mant odd (0.0: mant = <<>>, exp = 0), an   *)
(* infinite one has inf = TRUE.  Every operation rounds the exact result   *)
(* to 53 significant bits, ties to even.                                   *)
(***************************************************************************)
FloatZero == [inf |-> FALSE, neg |-> FALSE, mant |-> <<>>, exp |-> 0]

\* float('inf'), -float('inf')
FloatInf(neg) == [inf |-> TRUE, neg |-> neg, mant |-> <<>>, exp |-> 0]

\* the float that is exactly (-1)^neg * mant * 2^exp
Float(neg, mant, exp) ==
    IF mant = <<>> THEN FloatZero
    ELSE LET tz == BigTrailingZeros(mant)
         IN  [inf |-> FALSE, neg |-> neg, mant |-> BigShr(mant, tz), exp |-> exp + tz]

\* the float nearest to (-1)^neg * (mant + sticky) * 2^exp, where sticky is a
\* part of the value below one unit of mant (present or not)
FloatRound(neg, mant, exp, sticky) ==
    LET len == BigBitLen(mant)
        s == Max(Max(len - 53, -1074 - exp), 0)
        q == BigShr(mant, s)
        up == /\ s > 0
              /\ BigBit(mant, s - 1)
              /\ (sticky \/ ~BigLowZero(mant, s - 1) \/ BigBit(q, 0))
        rounded == IF up THEN BigAdd(q, <<1>>) ELSE q
    IN  IF BigBitLen(rounded) + exp + s > 1024 THEN FloatInf(neg)
        ELSE Float(neg, rounded, exp + s)

\* float(n) of a machine-sized int
FloatOfInt(n) ==
    IF n >= 0 THEN FloatRound(FALSE, BigFromNat(n), 0, FALSE)
    ELSE FloatRound(TRUE, BigFromNat(-n), 0, FALSE)

\* -x
FloatNeg(x) == IF x = FloatZero THEN x ELSE [x EXCEPT !.neg = ~@]

\* x + y (never inf - inf)
FloatAdd(x, y) ==
    IF x.inf THEN x
    ELSE IF y.inf THEN y
    ELSE IF x.mant = <<>> THEN y
    ELSE IF y.mant = <<>> THEN x
    ELSE LET e == Min(x.exp, y.exp)
             sum == SignedAdd(x.neg, BigShl(x.mant, x.exp - e),
                              y.neg, BigShl(y.mant, y.exp - e))
         IN  FloatRound(sum.neg, sum.mag, e, FALSE)

\* x - y
FloatSub(x, y) == FloatAdd(x, FloatNeg(y))

\* x * y (never inf * 0)
FloatMul(x, y) ==
    IF x.inf \/ y.inf THEN FloatInf(x.neg # y.neg)
    ELSE FloatRound(x.neg # y.neg, BigMul(x.mant, y.mant), x.exp + y.exp, FALSE)

\* x / y for a finite y # 0
FloatDiv(x, y) ==
    IF x.inf THEN FloatInf(x.neg # y.neg)
    ELSE IF x.mant = <<>> \/ y.inf THEN FloatZero
    ELSE LET k == Max(0, 56 + BigBitLen(y.mant) - BigBitLen(x.mant))
             dm == BigDivMod(BigShl(x.mant, k), y.mant)
         IN  FloatRound(x.neg # y.neg, dm.q, x.exp - y.exp - k, dm.r # <<>>)

\* -1, 0, 1 as x < y, x = y, x > y
FloatCmp(x, y) ==
    IF x = y THEN 0
    ELSE IF x.inf THEN (IF x.neg THEN -1 ELSE 1)
    ELSE IF y.inf THEN (IF y.neg THEN 1 ELSE -1)
    ELSE LET e == Min(x.exp, y.exp)
             d == SignedAdd(x.neg, BigShl(x.mant, x.exp - e),
                            ~y.neg, BigShl(y.mant, y.exp - e))
         IN  IF d.neg THEN -1 ELSE 1

FloatLeq(x, y) == FloatCmp(x, y) <= 0

FloatLess(x, y) == FloatCmp(x, y) < 0

\* a decimal literal n / d, e.g. 0.7213 = 7213 / 10000
FloatLiteral(n, d) == FloatDiv(FloatOfInt(n), FloatOfInt(d))

\* a finite float, or the infinity its magnitude overflows to
FloatFinite(neg, mant, exp) ==
    IF BigBitLen(mant) + exp > 1024 THEN FloatInf(neg) ELSE Float(neg, mant, exp)

\* (-1)^neg * mant * 2^exp cut off after 53 bits: the nearest float toward 0
FloatTowardZero(neg, mant, exp) ==
    LET s == Max(Max(BigBitLen(mant) - 53, -1074 - exp), 0)
    IN  FloatFinite(neg, BigShr(mant, s), exp + s)

\* the nearest float away from 0 of (-1)^neg * (mant + sticky) * 2^exp, the
\* value itself when it is a float
FloatAwayFromZero(neg, mant, exp, sticky) ==
    LET s == Max(Max(BigBitLen(mant) - 53, -1074 - exp), 0)
        q == BigShr(mant, s)
    IN  IF ~sticky /\ BigLowZero(mant, s) THEN FloatFinite(neg, q, exp + s)
        ELSE FloatFinite(neg, BigAdd(q, <<1>>), exp + s)

\* the results of a library function whose exact value is
\* (-1)^neg * (mant + sticky) * 2^exp: that value when it is a float, else the
\* float below it and the float above it
FloatFaithful(neg, mant, exp, sticky) ==
    {FloatTowardZero(neg, mant, exp), FloatAwayFromZero(neg, mant, exp, sticky)}

\* x ** k for an int k, pow of the C library (numpy gives inf for
\* 0.0 ** negative): the set of the floats it can return
FloatPow(x, k) ==
    LET neg == x.neg /\ k % 2 = 1
    IN  IF k = 0 THEN {FloatOfInt(1)}
        ELSE IF k > 0
        THEN (IF x.inf THEN {FloatInf(neg)}
              ELSE FloatFaithful(neg, BigPow(x.mant, k), x.exp * k, FALSE))
        ELSE IF x.inf THEN {FloatZero}
        ELSE IF x.mant = <<>> THEN {FloatInf(FALSE)}
        ELSE LET p == BigPow(x.mant, -k)
                 shift == BigBitLen(p) + 56
                 dm == BigDivMod(BigPow2(shift), p)
             IN  FloatFaithful(neg, dm.q, x.exp * k - shift, dm.r # <<>>)

(***************************************************************************)
(* math.log and np.exp, evaluated in fixed point with Base^digits units    *)
(* (90 bits and more).  The series are cut off, so the exact value lies    *)
(* within SeriesError units of the computed one; the results are the       *)
(* floats next to that interval: the float below and the float above the   *)
(* exact value.                                                            *)
(***************************************************************************)
\* a bound on the error of the computed logarithm or exponential, in units
SeriesError == <<4096>>

\* the floats next to the values between (mant - SeriesError) * 2^exp and
\* (mant + SeriesError) * 2^exp, with the sign neg
FloatEnclosure(neg, mant, exp) ==
    LET lo == IF BigCmp(mant, SeriesError) > 0 THEN BigSub(mant, SeriesError) ELSE <<>>
        hi == BigAdd(mant, SeriesError)
    IN  {FloatTowardZero(neg, lo, exp), FloatAwayFromZero(neg, lo, exp, FALSE),
         FloatAwayFromZero(neg, hi, exp, FALSE)}

\* floor(ln(2) * Base^6)
Ln2 == <<3790, 24143, 30618, 31289, 1533, 22713>>

RECURSIVE AtanhSeries(_, _, _, _, _)
\* acc + the sum over i >= j of z^(2i+1) / (2i+1), given p = z^(2j+1) and
\* z2 = z^2
AtanhSeries(p, z2, digits, j, acc) ==
    IF p = <<>> \/ Len(acc) < 0 THEN acc
    ELSE AtanhSeries(BigDropDigits(BigMul(p, z2), digits), z2, digits, j + 1,
                     BigAdd(acc, BigDivSmall(p, 2 * j + 1)))

\* the natural logarithm of a finite x > 0: x = f * 2^e with
\* 1/sqrt(2) < f <= sqrt(2), ln x = e * ln 2 + 2 * atanh((f - 1) / (f + 1));
\* the set of the floats the library can return (ln 1 is 0.0, and the
\* logarithm of an x = 1 + d close to 1, close to the float d - d^2 / 2, takes more
\* digits)
LogValues(x) ==
    LET len == BigBitLen(x.mant)
        s == IF BigCmp(BigMul(x.mant, x.mant), BigPow2(2 * len - 1)) > 0
             THEN len ELSE len - 1
        e == x.exp + s
        one == BigPow2(s)
        fneg == BigCmp(x.mant, one) < 0
        diff == IF fneg THEN BigSub(one, x.mant) ELSE BigSub(x.mant, one)
        den == BigAdd(x.mant, one)
        digits == IF e = 0 THEN 6 + (BigBitLen(den) - BigBitLen(diff)) \div 5 ELSE 6
        z == BigDivMod(BigShiftDigits(diff, digits), den).q
        z2 == BigDropDigits(BigMul(z, z), digits)
        atanh == AtanhSeries(z, z2, digits, 0, <<>>)
        ln == SignedAdd(e < 0, BigMulDigit(Ln2, IF e < 0 THEN -e ELSE e),
                        fneg, BigAdd(atanh, atanh))
    IN  IF diff = <<>> THEN
            (IF e = 0 THEN {FloatZero}
             ELSE FloatEnclosure(e < 0, BigMulDigit(Ln2, IF e < 0 THEN -e ELSE e), -90))
        ELSE FloatEnclosure(ln.neg, ln.mag, -15 * digits)

RECURSIVE ExpSeries(_, _, _, _, _, _)
\* the sums of the terms r^i / i! over the even and over the odd i, those of
\* the i < j given in even and odd, with term = r^j / j!
ExpSeries(term, r, digits, j, even, odd) ==
    IF term = <<>> \/ Len(even) + Len(odd) < 0 THEN [even |-> even, odd |-> odd]
    ELSE ExpSeries(BigDivSmall(BigDropDigits(BigMul(term, r), digits), j + 1), r,
                   digits, j + 1,
                   IF j % 2 = 0 THEN BigAdd(even, term) ELSE even,
                   IF j % 2 = 0 THEN odd ELSE BigAdd(odd, term))

\* e^x: |x| = n * ln 2 + r with 0 <= r < ln 2, exp(x) = 2^n * e^r or
\* 2^-n * e^-r; the set of the floats the library can return (e^0 is 1.0,
\* e^x lies between 1.0 and the float next to it for |x| < 2^-54, and a small
\* x, whose e^x is close to the float 1 + x, takes 135 bits)
ExpValues(x) ==
    IF x.inf THEN (IF x.neg THEN {FloatZero} ELSE {x})
    ELSE IF x.mant = <<>> THEN {FloatOfInt(1)}
    ELSE IF BigBitLen(x.mant) + x.exp > 11
    THEN (IF x.neg THEN {FloatZero} ELSE {FloatInf(FALSE)})
    ELSE IF BigBitLen(x.mant) + x.exp < -54
    THEN (IF x.neg THEN {Float(FALSE, BigSub(BigPow2(53), <<1>>), -53), FloatOfInt(1)}
          ELSE {FloatOfInt(1), Float(FALSE, BigAdd(BigPow2(52), <<1>>), -52)})
    ELSE IF BigBitLen(x.mant) + x.exp < -20
    THEN LET sums == ExpSeries(BigShiftDigits(<<1>>, 9), BigShl(x.mant, x.exp + 135),
                               9, 0, <<>>, <<>>)
         IN  IF x.neg THEN FloatEnclosure(FALSE, BigSub(sums.even, sums.odd), -135)
             ELSE FloatEnclosure(FALSE, BigAdd(sums.even, sums.odd), -135)
    ELSE LET scaled == IF x.exp + 90 >= 0 THEN BigShl(x.mant, x.exp + 90)
                       ELSE BigShr(x.mant, -(x.exp + 90))
             dm == BigDivMod(scaled, Ln2)
             n == IF dm.q = <<>> THEN 0 ELSE dm.q[1]
             sums == ExpSeries(BigShiftDigits(<<1>>, 6), dm.r, 6, 0, <<>>, <<>>)
         IN  IF x.neg
             THEN FloatEnclosure(FALSE, BigSub(sums.even, sums.odd), -n - 90)
             ELSE FloatEnclosure(FALSE, BigAdd(sums.even, sums.odd), n - 90)

(***************************************************************************)
(* The sizes of the sketches and filters that are built, and the values    *)
(* math.log and np.exp can take on them.  A table is evaluated once;       *)
(* math_log and np_exp look an argument up and compute the values of any   *)
(* other argument.                                                         *)
(***************************************************************************)
HLL_Ms == {-1, 0, 1, 2, 3, 4, 16, 32, 64, 128}

SBF_Ks == {0, 1, 2}

SBF_Ms == {-1, 0, 1, 2, 3}

MaxDataSize == 1

\* float(m) / float(V) for the V of 1 .. m registers that can be zero
LogArguments ==
    UNION {{FloatDiv(FloatOfInt(m), FloatOfInt(V)) : V \in 1..m} : m \in HLL_Ms}

LogTable == [x \in LogArguments |-> LogValues(x)]

\* math.log(x): the set of the floats the call can return
math_log(x) == IF x \in LogArguments THEN LogTable[x] ELSE LogValues(x)

\* -k * data_size / m
ExpArguments ==
    {FloatDiv(FloatOfInt(-k * n), FloatOfInt(m)) :
        k \in SBF_Ks, n \in 1..MaxDataSize, m \in SBF_Ms \ {0}}

ExpTable == [x \in ExpArguments |-> ExpValues(x)]

\* np.exp(x): the set of the floats the call can return
np_exp(x) == IF x \in ExpArguments THEN ExpTable[x] ELSE ExpValues(x)

(***************************************************************************)
(* HyperLogLog                                                             *)
(***************************************************************************)
HashBits == 0..127

\* the integer n >= 0 as the set of its set bit positions
RECURSIVE BitsOf(_)
BitsOf(n) ==
    IF n = 0 THEN {}
    ELSE {i + 1 : i \in BitsOf(n \div 2)} \cup (IF n % 2 = 1 THEN {0} ELSE {})

RECURSIVE NatOfBits(_)
NatOfBits(b) ==
    IF b = {} THEN 0
    ELSE LET i == CHOOSE j \in b : TRUE IN 2^i + NatOfBits(b \ {i})

\* hash_value & n
BitAnd(hash_value, n) == NatOfBits(hash_value \cap BitsOf(n))

\* hash_value >> p
ShiftRight(hash_value, p) == {i - p : i \in {j \in hash_value : j >= p}}

SetMax(S) == CHOOSE i \in S : \A j \in S : j <= i

SetMin(S) == CHOOSE i \in S : \A j \in S : i <= j

\* bin(v)[2:] for v > 0: the binary digits, most significant first
Bin(v) ==
    LET top == SetMax(v)
    IN  [j \in 1..(top + 1) |-> IF (top + 1 - j) \in v THEN "1" ELSE "0"]

\* str.zfill(width)
Zfill(s, width) ==
    IF Len(s) >= width THEN s ELSE [i \in 1..(width - Len(s)) |-> "0"] \o s

\* str.find(c): the 0-based index of the first c, -1 when there is none
Find(s, c) ==
    IF \E i \in 1..Len(s) : s[i] = c
    THEN (CHOOSE i \in 1..Len(s) : s[i] = c /\ \A j \in 1..(i - 1) : s[j] # c) - 1
    ELSE -1

\* int(math.log2(m)) for m >= 1
IntLog2(m) == NatBitLen(m) - 1

get_alpha_m(m) ==
    IF m >= 128
    THEN FloatDiv(FloatLiteral(7213, 10000),
                  FloatAdd(FloatOfInt(1), FloatDiv(FloatLiteral(1079, 1000), FloatOfInt(m))))
    ELSE IF m >= 64 THEN FloatLiteral(709, 1000)
    ELSE IF m >= 32 THEN FloatLiteral(697, 1000)
    ELSE IF m >= 16 THEN FloatLiteral(673, 1000)
    ELSE FloatLiteral(5, 10)

\* HyperLogLog(m): the exception raised and the objects constructed (none or
\* one); math.log2 raises ValueError for m <= 0
HyperLogLog(m) ==
    IF m <= 0 THEN [raised |-> "ValueError", self |-> {}]
    ELSE [raised |-> None,
          self |-> {[m |-> m,
                     p |-> IntLog2(m),
                     registers |-> [i \in 0..(m - 1) |-> 0],
                     alpha_m |-> get_alpha_m(m)]}]

hash_function(x) == md5[x]

\* a rank taken in the whole 128-bit digest: the remaining hash is filled to
\* 128 digits instead of 128 - p
leftmost_1_bit_position_full_width(self, hash_value) ==
    IF hash_value = {} THEN (128 - self.p) + 1
    ELSE LET remainder_bits == 128
             binary == Zfill(Bin(hash_value), remainder_bits)
             leading_zeros == Find(binary, "1")
         IN  leading_zeros + 1

leftmost_1_bit_position(self, hash_value) ==
    IF hash_value = {} THEN (128 - self.p) + 1
    ELSE LET remainder_bits == 128 - self.p
             binary == Zfill(Bin(hash_value), remainder_bits)
             leading_zeros == Find(binary, "1")
         IN  leading_zeros + 1

\* insert that stores the rank without taking the maximum
HLL_insert_overwrite(self, x) ==
    LET hash_value == hash_function(x)
        register_index == BitAnd(hash_value, self.m - 1)
        remaining_hash == ShiftRight(hash_value, self.p)
        position == leftmost_1_bit_position(self, remaining_hash)
    IN  [self EXCEPT !.registers[register_index] = position]

\* the registers after insert(x)
HLL_insert(self, x) ==
    LET hash_value == hash_function(x)
        register_index == BitAnd(hash_value, self.m - 1)
        remaining_hash == ShiftRight(hash_value, self.p)
        position == leftmost_1_bit_position(self, remaining_hash)
    IN  [self EXCEPT !.registers[register_index] = Max(@, position)]

\* 2**-reg
Pow2Neg(reg) == Float(FALSE, <<1>>, -reg)

\* the registers lo .. hi are equal, and acc and the sum of their terms
\* 2**-reg are multiples of one power of two below 2^52 of it: every partial
\* sum of acc and these terms is such a multiple below 2^53, a float, and no
\* addition rounds
ExactRun(registers, lo, hi, acc) ==
    LET quantum == IF acc.mant = <<>> THEN -registers[lo]
                   ELSE Min(acc.exp, -registers[lo])
    IN  /\ \A i \in lo..hi : registers[i] = registers[lo]
        /\ ~acc.neg
        /\ acc.mant = <<>> \/ (BigBitLen(acc.mant) + acc.exp) - quantum <= 52
        /\ (NatBitLen((hi - lo) + 1) - registers[lo]) - quantum <= 52

\* abs(x)
FloatAbs(x) == [x EXCEPT !.neg = FALSE]

\* The ways builtin sum() adds: CPython up to 3.11 adds every item to the
\* running sum; from 3.12 on a float item is added with Neumaier's
\* compensation, and an int item met after the first float is added either
\* plainly or with the compensation as well, as the version has it.
SumModes == {"plain", "compensated floats", "compensated items"}

\* sum() starts from the int 0 and keeps an int result while the items are
\* ints; from the first float item on it keeps the running float sum hi and
\* the compensation lo
SumStart == [float |-> FALSE, hi |-> FloatZero, lo |-> FloatZero]

\* f_result += x
PlainAdd(total, x) == [total EXCEPT !.hi = FloatAdd(total.hi, x)]

\* t = f_result + x; c += (f_result - t) + x if fabs(f_result) >= fabs(x),
\* else c += (x - t) + f_result; f_result = t
CompensatedAdd(total, x) ==
    LET t == FloatAdd(total.hi, x)
        lost == IF FloatLeq(FloatAbs(x), FloatAbs(total.hi))
                THEN FloatAdd(FloatSub(total.hi, t), x)
                ELSE FloatAdd(FloatSub(x, t), total.hi)
    IN  [total EXCEPT !.hi = t, !.lo = FloatAdd(total.lo, lost)]

\* the item 2**-reg added: 2**-0 is the int 1, every other item is a float.
\* An int result and an int item add as ints, an int result and the first
\* float item add as floats; after that the mode decides
SumItem(total, reg, mode) ==
    IF ~total.float
    THEN [PlainAdd(total, Pow2Neg(reg)) EXCEPT !.float = reg # 0]
    ELSE IF mode = "compensated items" \/ (mode = "compensated floats" /\ reg # 0)
    THEN CompensatedAdd(total, Pow2Neg(reg))
    ELSE PlainAdd(total, Pow2Neg(reg))

\* every item 2**-reg is a multiple of the smallest one, and the sum of all
\* is below 2^53 of it: no addition rounds, nothing is lost and the modes
\* of sum() agree
ExactSum(registers) ==
    LET ranks == {registers[i] : i \in DOMAIN registers}
    IN  ranks # {}
        /\ (NatBitLen(Cardinality(DOMAIN registers)) + SetMax(ranks)) - SetMin(ranks) <= 52

RECURSIVE SumInverses(_, _, _, _, _)
\* sum(): the items of the registers lo .. hi added to total one at a time,
\* from the left; the items of an exact run are added at once (no addition
\* of the run rounds, so that it loses nothing and lo stays as it is)
SumInverses(registers, lo, hi, total, mode) ==
    IF lo > hi \/ total.hi.inf \/ total.lo.inf THEN total
    ELSE IF lo = hi THEN SumItem(total, registers[lo], mode)
    ELSE IF ExactRun(registers, lo, hi, total.hi)
    THEN [total EXCEPT
             !.hi = FloatAdd(@, FloatMul(FloatOfInt((hi - lo) + 1), Pow2Neg(registers[lo]))),
             !.float = @ \/ registers[lo] # 0]
    ELSE LET mid == (lo + hi) \div 2
         IN  SumInverses(registers, mid + 1, hi,
                         SumInverses(registers, lo, mid, total, mode), mode)

\* the result of sum(): f_result + c if c is not 0 and is finite, else f_result
SumResult(total) ==
    IF total.lo # FloatZero /\ ~total.lo.inf THEN FloatAdd(total.hi, total.lo)
    ELSE total.hi

\* sum([2**-reg for reg in self.registers]): the set of the values the
\* versions of sum() return
sum_of_inverses(self) ==
    {SumResult(SumInverses(self.registers, 0, self.m - 1, SumStart, mode)) :
        mode \in IF ExactSum(self.registers) THEN {"plain"} ELSE SumModes}

\* the harmonic mean proper, m / sum
harmonic_mean_times_m(self) ==
    {IF s = FloatZero THEN FloatInf(FALSE) ELSE FloatDiv(FloatOfInt(self.m), s) :
        s \in sum_of_inverses(self)}

\* the set of the values the call can return, one for each value of the sum
harmonic_mean(self) ==
    {IF s = FloatZero THEN FloatInf(FALSE) ELSE FloatDiv(FloatOfInt(1), s) :
        s \in sum_of_inverses(self)}

\* 2**32
Two32 == Float(FALSE, <<1>>, 32)

\* 2.5
SmallRangeFactor == FloatLiteral(25, 10)

\* counting the registers that are set instead of those that are not
CountZero_nonzero(self) ==
    Cardinality({i \in DOMAIN self.registers : self.registers[i] # 0})

\* self.registers.count(0)
CountZero(self) == Cardinality({i \in DOMAIN self.registers : self.registers[i] = 0})

\* float(self.alpha_m) * float(self.m ** 2) * float(harmonic)
raw_estimate(self, harmonic) ==
    FloatMul(FloatMul(self.alpha_m, FloatOfInt(self.m * self.m)), harmonic)

\* the large-range correction applied to everything above 2.5 * m
estimate_cardinality_no_mid_range(self, use_bias_correction) ==
    UNION {
    LET raw == raw_estimate(self, harmonic)
        V == CountZero(self)
        ratio == FloatDiv(raw, Two32)
    IN  IF harmonic = FloatInf(FALSE) THEN {FloatZero}
        ELSE IF ~use_bias_correction THEN {raw}
        ELSE IF FloatLeq(raw, FloatMul(SmallRangeFactor, FloatOfInt(self.m)))
        THEN (IF V > 0
              THEN {FloatMul(FloatOfInt(self.m), log) :
                       log \in math_log(FloatDiv(FloatOfInt(self.m), FloatOfInt(V)))}
              ELSE {raw})
        ELSE IF FloatLess(ratio, FloatOfInt(1))
        THEN {FloatMul(FloatNeg(Two32), log) :
                 log \in math_log(FloatSub(FloatOfInt(1), ratio))}
        ELSE {raw}
    : harmonic \in harmonic_mean(self)}

\* the set of the values the call can return: those that the values of
\* harmonic_mean and the results of math.log give
estimate_cardinality(self, use_bias_correction) ==
    UNION {
    LET raw == raw_estimate(self, harmonic)
        V == CountZero(self)
        ratio == FloatDiv(raw, Two32)
    IN  IF harmonic = FloatInf(FALSE) THEN {FloatZero}
        ELSE IF ~use_bias_correction THEN {raw}
        ELSE IF FloatLeq(raw, FloatMul(SmallRangeFactor, FloatOfInt(self.m)))
        THEN (IF V > 0
              THEN {FloatMul(FloatOfInt(self.m), log) :
                       log \in math_log(FloatDiv(FloatOfInt(self.m), FloatOfInt(V)))}
              ELSE {raw})
        ELSE IF FloatLeq(raw, FloatDiv(Two32, FloatOfInt(30)))
        THEN {raw}
        ELSE IF FloatLess(ratio, FloatOfInt(1))
        THEN {FloatMul(FloatNeg(Two32), log) :
                 log \in math_log(FloatSub(FloatOfInt(1), ratio))}
        ELSE {raw}
    : harmonic \in harmonic_mean(self)}

(***************************************************************************)
(* SpectralBloomFilter                                                     *)
(***************************************************************************)
\* min(min_count, c) of the float or counter min_count and the counter c
FMinCount(min_count, c) ==
    IF FloatLess(FloatOfInt(c), min_count) THEN FloatOfInt(c) ELSE min_count

\* max(0.0, a)
FMax0(a) == IF FloatLess(FloatZero, a) THEN a ELSE FloatZero

\* SpectralBloomFilter(k, m): the exception raised and the objects constructed
\* (none or one); np.zeros(m) raises ValueError for m < 0
SpectralBloomFilter(k, m) ==
    IF m < 0 THEN [raised |-> "ValueError", self |-> {}]
    ELSE [raised |-> None,
          self |-> {[k |-> k, m |-> m, t |-> [i \in 0..(m - 1) |-> 0]]}]

\* mmh3.hash(str(x), i) % self.m for self.m > 0
hashing(self, x, i) == mmh3[x][i] % self.m

RECURSIVE InsertLoop(_, _, _)
\* for i in range(self.k) from i on; % 0 raises ZeroDivisionError
InsertLoop(self, x, i) ==
    IF i >= self.k THEN [self |-> self, raised |-> None]
    ELSE IF self.m = 0 THEN [self |-> self, raised |-> "ZeroDivisionError"]
    ELSE InsertLoop([self EXCEPT !.t[hashing(self, x, i)] = @ + 1], x, i + 1)

\* range(1, self.k): the first hash function is skipped
SBF_insert_skip_first(self, x) == InsertLoop(self, x, 1)

RECURSIVE SetLoop(_, _, _)
SetLoop(self, x, i) ==
    IF i >= self.k THEN [self |-> self, raised |-> None]
    ELSE IF self.m = 0 THEN [self |-> self, raised |-> "ZeroDivisionError"]
    ELSE SetLoop([self EXCEPT !.t[hashing(self, x, i)] = 1], x, i + 1)

\* a plain Bloom filter: the bucket is set, not counted
SBF_insert_set(self, x) == SetLoop(self, x, 0)

RECURSIVE MinimalIncreaseLoop(_, _, _, _)
MinimalIncreaseLoop(self, x, i, least) ==
    IF i >= self.k THEN [self |-> self, raised |-> None]
    ELSE IF self.m = 0 THEN [self |-> self, raised |-> "ZeroDivisionError"]
    ELSE LET h == hashing(self, x, i)
         IN  MinimalIncreaseLoop(
                 [self EXCEPT !.t[h] = IF @ = least THEN @ + 1 ELSE @], x, i + 1, least)

\* the paper's minimal-increase heuristic: only the smallest counters of x grow
SBF_insert_minimal_increase(self, x) ==
    IF self.m = 0 \/ self.k <= 0 THEN InsertLoop(self, x, 0)
    ELSE MinimalIncreaseLoop(self, x, 0,
             SetMin({self.t[hashing(self, x, i)] : i \in 0..(self.k - 1)}))

SBF_insert(self, x) == InsertLoop(self, x, 0)

\* the set of the values the call can return: those that the results of
\* np.exp and of ** give
get_expected_error(self, data_size) ==
    IF self.m = 0 \/ data_size = 0 THEN {FloatZero}
    ELSE LET exponent == FloatDiv(FloatOfInt(-self.k * data_size), FloatOfInt(self.m))
         IN  UNION {FloatPow(FloatSub(FloatOfInt(1), exp), self.k) : exp \in np_exp(exponent)}

RECURSIVE MinLoop(_, _, _, _)
MinLoop(self, x, i, min_count) ==
    IF i >= self.k THEN [value |-> min_count, raised |-> None]
    ELSE IF self.m = 0 THEN [value |-> min_count, raised |-> "ZeroDivisionError"]
    ELSE MinLoop(self, x, i + 1, FMinCount(min_count, self.t[hashing(self, x, i)]))

\* data_size is {} for None and {n} for the integer n; a call that raises
\* returns no value.  The set of the outcomes of the call: one outcome, or
\* those that the values of get_expected_error give
check(self, x, apply_correction, data_size) ==
    LET loop == MinLoop(self, x, 0, FloatInf(FALSE))
        min_count == loop.value
    IN  IF loop.raised # None THEN {[value |-> None, raised |-> loop.raised]}
        ELSE IF apply_correction
        THEN (IF data_size = {}
              THEN {[value |-> None, raised |-> "ValueError"]}
              ELSE LET n == CHOOSE d \in data_size : TRUE
                   IN  {[value |-> FMax0(FloatSub(min_count, expected_error)),
                         raised |-> None] :
                           expected_error \in get_expected_error(self, n)})
        ELSE {[value |-> min_count, raised |-> None]}

(***************************************************************************)
(* The inputs.  md5 and mmh3 are library hashes: any function from the     *)
(* elements to the sample digests below.                                   *)
(***************************************************************************)
MaxInserts == 3

Scripts == {"hyperLogLog", "SpectralBloomFilter"}

HLL_Elems == {"a", "b"}

\* digests: 0, 2^128 - 1, and digests whose highest set bit is 127, 126, 125, 99, 95
HashValues ==
    {{}, HashBits, {127}, {126, 0}, {125, 1}, {99, 0}, {95}}

SBF_Elems == {"a", "b"}

Mmh3Values == {-1, 4}

Seeds == 0..(SetMax(SBF_Ks) - 1)

DataSizeArgs == {{}} \cup {{n} : n \in 0..MaxDataSize}

NoReturn == [raised |-> None, value |-> None]

Init ==
    /\ script \in Scripts
    /\ md5 \in IF script = "hyperLogLog" THEN [HLL_Elems -> HashValues] ELSE {<<>>}
    /\ mmh3 \in IF script = "SpectralBloomFilter"
                THEN [SBF_Elems -> [Seeds -> Mmh3Values]] ELSE {<<>>}
    /\ hll = {}
    /\ sbf = {}
    /\ stream = <<>>
    /\ call = [op |-> "start"]
    /\ ret = NoReturn

(***************************************************************************)
(* hyperLogLog.py                                                          *)
(***************************************************************************)
HLL_Init(m) ==
    /\ script = "hyperLogLog"
    /\ call.op = "start"
    /\ call' = [op |-> "HyperLogLog", m |-> m]
    /\ hll' = HyperLogLog(m).self
    /\ ret' = [raised |-> HyperLogLog(m).raised, value |-> None]
    /\ UNCHANGED <<script, md5, mmh3, sbf, stream>>

HLL_Insert(x) ==
    /\ Len(stream) < MaxInserts
    /\ \E self \in hll :
         /\ hll' = {HLL_insert(self, x)}
         /\ stream' = Append(stream, x)
         /\ call' = [op |-> "insert", x |-> x]
         /\ ret' = NoReturn
    /\ UNCHANGED <<script, md5, mmh3, sbf>>

HLL_Estimate(use_bias_correction) ==
    /\ \E self \in hll :
         /\ call' = [op |-> "estimate_cardinality",
                     use_bias_correction |-> use_bias_correction]
         /\ \E value \in estimate_cardinality(self, use_bias_correction) :
               ret' = [raised |-> None, value |-> value]
    /\ UNCHANGED <<script, md5, mmh3, hll, sbf, stream>>

(***************************************************************************)
(* SpectralBloomFilter.py                                                  *)
(***************************************************************************)
SBF_Init(k, m) ==
    /\ script = "SpectralBloomFilter"
    /\ call.op = "start"
    /\ call' = [op |-> "SpectralBloomFilter", k |-> k, m |-> m]
    /\ sbf' = SpectralBloomFilter(k, m).self
    /\ ret' = [raised |-> SpectralBloomFilter(k, m).raised, value |-> None]
    /\ UNCHANGED <<script, md5, mmh3, hll, stream>>

SBF_Insert(x) ==
    /\ Len(stream) < MaxInserts
    /\ \E self \in sbf :
         LET done == SBF_insert(self, x)
         IN  /\ sbf' = {done.self}
             /\ stream' = IF done.raised = None THEN Append(stream, x) ELSE stream
             /\ call' = [op |-> "insert", x |-> x]
             /\ ret' = [raised |-> done.raised, value |-> None]
    /\ UNCHANGED <<script, md5, mmh3, hll>>

SBF_Check(x, apply_correction, data_size) ==
    /\ \E self \in sbf :
         /\ call' = [op |-> "check", x |-> x, apply_correction |-> apply_correction,
                     data_size |-> data_size]
         /\ ret' \in check(self, x, apply_correction, data_size)
    /\ UNCHANGED <<script, md5, mmh3, hll, sbf, stream>>

Next ==
    \/ \E m \in HLL_Ms : HLL_Init(m)
    \/ \E x \in HLL_Elems : HLL_Insert(x)
    \/ \E b \in BOOLEAN : HLL_Estimate(b)
    \/ \E k \in SBF_Ks, m \in SBF_Ms : SBF_Init(k, m)
    \/ \E x \in SBF_Elems : SBF_Insert(x)
    \/ \E x \in SBF_Elems, b \in BOOLEAN, n \in DataSizeArgs : SBF_Check(x, b, n)

Spec == Init /\ [][Next]_vars

(***************************************************************************)
(* estimate_cardinality is a pure function of (m, registers).  SpecEstimate *)
(* draws the registers an insert stream can leave behind (ranks between 0  *)
(* and (128 - p) + 1) and applies it.                                      *)
(***************************************************************************)
EstimateMs == {1, 2, 4, 16, 128}

\* ranks: none, the first ones, those around the 2^32/30 and 2^32 thresholds,
\* one whose term 2^-53 an addition to 1 rounds away, the largest
RankSamples(p) == {0, 1, 2, 3, 25, 29, 33, 53, (128 - p) + 1}

SplitSamples(m) == {0, 1, m \div 2, m - 1, m}

\* the first j registers hold rank a, the others rank b
Registers(m, j, a, b) == [i \in 0..(m - 1) |-> IF i < j THEN a ELSE b]

InitEstimate ==
    /\ script = "hyperLogLog"
    /\ md5 = <<>>
    /\ mmh3 = <<>>
    /\ \E m \in EstimateMs :
         \E j \in SplitSamples(m), a, b \in RankSamples(IntLog2(m)) :
            hll = {[self EXCEPT !.registers = Registers(m, j, a, b)] :
                      self \in HyperLogLog(m).self}
    /\ sbf = {}
    /\ stream = <<>>
    /\ call = [op |-> "insert"]
    /\ ret = NoReturn

NextEstimate == \E b \in BOOLEAN : HLL_Estimate(b)

SpecEstimate == InitEstimate /\ [][NextEstimate]_vars

(***************************************************************************)
(* The filter of the spec's example has k = 3 hash functions.               *)
(* SpecThreeHashes builds filters of up to three hash functions over the   *)
(* digests -1, 4 and 6, which are three buckets of m = 3, and inserts and   *)
(* looks up without correction.                                            *)
(***************************************************************************)
ThreeHashesKs == {1, 2, 3}

ThreeHashesMs == {1, 2, 3}

ThreeHashesValues == {-1, 4, 6}

InitThreeHashes ==
    /\ script = "SpectralBloomFilter"
    /\ md5 = <<>>
    /\ mmh3 \in [SBF_Elems -> [0..(SetMax(ThreeHashesKs) - 1) -> ThreeHashesValues]]
    /\ hll = {}
    /\ sbf = {}
    /\ stream = <<>>
    /\ call = [op |-> "start"]
    /\ ret = NoReturn

NextThreeHashes ==
    \/ \E k \in ThreeHashesKs, m \in ThreeHashesMs : SBF_Init(k, m)
    \/ \E x \in SBF_Elems : SBF_Insert(x)
    \/ \E x \in SBF_Elems : SBF_Check(x, FALSE, {})

SpecThreeHashes == InitThreeHashes /\ [][NextThreeHashes]_vars

(***************************************************************************)
(* Properties                                                              *)
(***************************************************************************)
\* the number of times x was inserted
Count(x) == Cardinality({i \in 1..Len(stream) : stream[i] = x})

\* the streams that insert the same multiset as s
Reorderings(s) ==
    {q \in [1..Len(s) -> {s[i] : i \in 1..Len(s)}] :
        \A e \in {s[i] : i \in 1..Len(s)} :
            Cardinality({i \in 1..Len(q) : q[i] = e})
                = Cardinality({i \in 1..Len(s) : s[i] = e})}

RECURSIVE HLL_InsertAll(_, _)
HLL_InsertAll(self, s) ==
    IF s = <<>> THEN self ELSE HLL_InsertAll(HLL_insert(self, Head(s)), Tail(s))

RECURSIVE SBF_InsertAll(_, _)
SBF_InsertAll(self, s) ==
    IF s = <<>> THEN self ELSE SBF_InsertAll(SBF_insert(self, Head(s)).self, Tail(s))

RegisterIndex(self, x) == BitAnd(hash_function(x), self.m - 1)

Rank(self, x) == leftmost_1_bit_position(self, ShiftRight(hash_function(x), self.p))

\* C1: on a filter with k >= 1 and m >= 1, check(x, apply_correction=False) of
\* an element x inserted at least once returns at least the number of times
\* x was inserted.
C1_NoUnderestimate ==
    \A self \in sbf :
        (/\ self.k >= 1
         /\ self.m >= 1
         /\ call.op = "check"
         /\ ~call.apply_correction
         /\ Count(call.x) >= 1)
        => /\ ret.raised = None
           /\ ~ret.value.inf
           /\ FloatLeq(FloatOfInt(Count(call.x)), ret.value)

\* C1 witness: an inserted element whose estimate a collision has inflated.
C1_Witness ==
    \E self \in sbf :
        /\ self.k >= 1
        /\ self.m >= 2
        /\ call.op = "check"
        /\ ~call.apply_correction
        /\ Count(call.x) >= 1
        /\ ret.raised = None
        /\ FloatLess(FloatOfInt(Count(call.x)), ret.value)

\* C2: inserting the stream's multiset in any other order into a fresh
\* estimator of the same configuration gives the same registers (HyperLogLog)
\* and the same counters t (SpectralBloomFilter).
C2_OrderIndependence ==
    /\ \A self \in hll :
          /\ HyperLogLog(self.m).self # {}
          /\ \A q \in Reorderings(stream), fresh \in HyperLogLog(self.m).self :
                 HLL_InsertAll(fresh, q).registers = self.registers
    /\ \A self \in sbf :
          /\ SpectralBloomFilter(self.k, self.m).self # {}
          /\ \A q \in Reorderings(stream), fresh \in SpectralBloomFilter(self.k, self.m).self :
                 SBF_InsertAll(fresh, q).t = self.t

\* C2 witness: two different elements met in one register with different
\* ranks, so that the order of the two inserts could matter.
C2_Witness ==
    \E self \in hll :
        /\ Len(stream) >= 2
        /\ stream[1] # stream[2]
        /\ RegisterIndex(self, stream[1]) = RegisterIndex(self, stream[2])
        /\ Rank(self, stream[1]) > Rank(self, stream[2])

\* C3: no step (constructor, insert or query) lowers a HyperLogLog register
\* or a SpectralBloomFilter counter.
C3_Monotone ==
    [][/\ \A self \in hll : \A new \in hll' :
             \A i \in DOMAIN self.registers : new.registers[i] >= self.registers[i]
       /\ \A self \in sbf : \A new \in sbf' :
             \A i \in DOMAIN self.t : new.t[i] >= self.t[i]]_vars

\* C3 witness: a register that a later insert of a smaller rank has met.
C3_Witness ==
    \E self \in hll :
        /\ Len(stream) >= 2
        /\ stream[1] # stream[2]
        /\ RegisterIndex(self, stream[1]) = RegisterIndex(self, stream[2])
        /\ Rank(self, stream[1]) > Rank(self, stream[2])
        /\ call.op = "insert"
        /\ self.registers[RegisterIndex(self, stream[1])] >= Rank(self, stream[1])

\* the raw estimate E = alpha_m * m^2 * Z with Z = 1 / sum of 2^-registers[i],
\* for each value sum() can give to that sum
RawE(self) ==
    {FloatMul(FloatMul(self.alpha_m, FloatOfInt(self.m * self.m)),
              FloatDiv(FloatOfInt(1), s)) : s \in sum_of_inverses(self)}

\* m * ln(m / V), the linear-counting estimate
LinearCounting(self, V) ==
    {FloatMul(FloatOfInt(self.m), ln) :
        ln \in math_log(FloatDiv(FloatOfInt(self.m), FloatOfInt(V)))}

\* -2^32 * ln(1 - E / 2^32)
LargeRange(E) ==
    {FloatMul(FloatNeg(Two32), ln) :
        ln \in math_log(FloatSub(FloatOfInt(1), FloatDiv(E, Two32)))}

\* E <= 2.5 * m
InSmallRange(self, E) == FloatLeq(E, FloatMul(FloatLiteral(5, 2), FloatOfInt(self.m)))

\* E <= 2^32 / 30
UpToMidRange(E) == FloatLeq(E, FloatDiv(Two32, FloatOfInt(30)))

\* E / 2^32 < 1
BelowHashSpace(E) == FloatLess(FloatDiv(E, Two32), FloatOfInt(1))

ZeroRegisters(self) == Cardinality({i \in DOMAIN self.registers : self.registers[i] = 0})

\* the values of the regime of E: E, or the correction with a logarithm of
\* the library
RegimeValue(self, E, use_bias_correction) ==
    IF ~use_bias_correction THEN {E}
    ELSE IF InSmallRange(self, E)
    THEN (IF ZeroRegisters(self) > 0
          THEN LinearCounting(self, ZeroRegisters(self)) ELSE {E})
    ELSE IF UpToMidRange(E) THEN {E}
    ELSE IF BelowHashSpace(E) THEN LargeRange(E)
    ELSE {E}

\* C4: estimate_cardinality(True) returns m*ln(m/V) when E <= 2.5*m and V > 0,
\* E when E <= 2.5*m and V = 0, E when 2.5*m < E <= 2^32/30, and above that
\* -2^32*ln(1 - E/2^32) when E/2^32 < 1 and E otherwise;
\* estimate_cardinality(False) returns E.  E is the raw estimate of the call:
\* one of the values of RawE.
C4_Regimes ==
    \A self \in hll :
        call.op = "estimate_cardinality"
        => /\ ret.raised = None
           /\ \E E \in RawE(self) :
                 ret.value \in RegimeValue(self, E, call.use_bias_correction)

\* C4 witness: a corrected estimate in the large range, below the hash space.
C4_Witness ==
    \E self \in hll :
        /\ call.op = "estimate_cardinality"
        /\ call.use_bias_correction
        /\ \A E \in RawE(self) :
              /\ ~InSmallRange(self, E)
              /\ ~UpToMidRange(E)
              /\ BelowHashSpace(E)
              /\ FloatLess(E, ret.value)

\* the versions of sum() differ on the registers of the sketch, and the raw
\* estimate returned is the one of a compensated sum
CompensatedEstimate ==
    \E self \in hll :
        /\ call.op = "estimate_cardinality"
        /\ ~call.use_bias_correction
        /\ Cardinality(RawE(self)) > 1
        /\ ret.value # raw_estimate(self,
               FloatDiv(FloatOfInt(1),
                        SumResult(SumInverses(self.registers, 0, self.m - 1,
                                              SumStart, "plain"))))

\* C5 as claimed: with one element x inserted n times and nothing else, on a
\* filter with k >= 1 and m >= 1, check(x, apply_correction=False) returns n.
C5_SingleElementExact ==
    \A self \in sbf :
        (/\ self.k >= 1
         /\ self.m >= 1
         /\ call.op = "check"
         /\ ~call.apply_correction
         /\ stream # <<>>
         /\ \A i \in 1..Len(stream) : stream[i] = call.x)
        => /\ ret.raised = None
           /\ ret.value = FloatOfInt(Len(stream))

\* the least number of hash functions that send x to one of its buckets
LeastShare(self, x) ==
    SetMin({Cardinality({j \in 0..(self.k - 1) : hashing(self, x, j) = hashing(self, x, i)}) :
               i \in 0..(self.k - 1)})

\* C5 amended: with one element x inserted n times and nothing else, on a
\* filter with k >= 1 and m >= 1, check(x, apply_correction=False) returns n
\* times the least number of hash functions that share one of x's buckets:
\* exactly n when some bucket of x is chosen by one hash function only, and
\* k * n when all k hash functions send x to the same bucket (always so for m = 1).
C5_SingleElementShare ==
    \A self \in sbf :
        (/\ self.k >= 1
         /\ self.m >= 1
         /\ call.op = "check"
         /\ ~call.apply_correction
         /\ stream # <<>>
         /\ \A i \in 1..Len(stream) : stream[i] = call.x)
        => /\ ret.raised = None
           /\ ret.value = FloatOfInt(Len(stream) * LeastShare(self, call.x))
           /\ (LeastShare(self, call.x) = 1 => ret.value = FloatOfInt(Len(stream)))

\* C5 witness: x inserted MaxInserts times with k = 3; two of its hash
\* functions share a bucket, which holds 2 * MaxInserts, and the third has
\* a bucket of its own, which holds MaxInserts, the value returned.
C5_Witness ==
    \E self \in sbf :
        /\ self.k = 3
        /\ call.op = "check"
        /\ ~call.apply_correction
        /\ Len(stream) = MaxInserts
        /\ \A i \in 1..Len(stream) : stream[i] = call.x
        /\ hashing(self, call.x, 0) = hashing(self, call.x, 1)
        /\ hashing(self, call.x, 2) # hashing(self, call.x, 0)
        /\ self.t[hashing(self, call.x, 0)] = 2 * MaxInserts
        /\ self.t[hashing(self, call.x, 2)] = MaxInserts
        /\ LeastShare(self, call.x) = 1
        /\ ret.value = FloatOfInt(MaxInserts)

IsPowerOfTwo(m) == m >= 1 /\ 2^IntLog2(m) = m

\* C6: estimate_cardinality(use_bias_correction=True) of a HyperLogLog with a
\* power-of-two m and no insertion returns 0.
C6_ZeroState ==
    \A self \in hll :
        (/\ IsPowerOfTwo(self.m)
         /\ stream = <<>>
         /\ call.op = "estimate_cardinality"
         /\ call.use_bias_correction)
        => /\ ret.raised = None
           /\ ret.value = FloatZero

\* C6 witness: the estimate of a fresh HyperLogLog with m = 128.
C6_Witness ==
    \E self \in hll :
        /\ self.m = 128
        /\ stream = <<>>
        /\ call.op = "estimate_cardinality"
        /\ call.use_bias_correction
        /\ ret.value = FloatZero

\* m = 16 with every register at rank 1, estimate_cardinality(True) just called
SmallCase(self) ==
    /\ self.m = 16
    /\ \A i \in DOMAIN self.registers : self.registers[i] = 1
    /\ call.op = "estimate_cardinality"
    /\ call.use_bias_correction

\* C7 as claimed: with m = 16 and all registers at rank 1 the estimate is the
\* raw estimate alphaM(16) * 256 * (1/16) = alphaM(16) * 16.
C7_SmallCaseSixteen ==
    \A self \in hll :
        SmallCase(self) => ret.value = FloatMul(get_alpha_m(16), FloatOfInt(16))

\* C7 amended: with m = 16 and all registers at rank 1 the sum of 2^-1 over
\* the 16 registers is 8, harmonic_mean is 1/8 and the raw estimate is
\* alphaM(16) * 256 * (1/8) = alphaM(16) * 32 = 21.536; it is <= 2.5 * 16 = 40
\* with no zero register, and estimate_cardinality(True) returns it.
C7_SmallCaseThirtyTwo ==
    \A self \in hll :
        SmallCase(self)
        => /\ harmonic_mean(self) = {FloatLiteral(1, 8)}
           /\ ret.value = FloatMul(get_alpha_m(16), FloatOfInt(32))
           /\ ret.value = FloatLiteral(21536, 1000)
           /\ FloatLeq(ret.value, FloatOfInt(40))
           /\ ZeroRegisters(self) = 0

\* C7 witness: that estimate has been made.
C7_Witness ==
    \E self \in hll :
        /\ SmallCase(self)
        /\ \E harmonic \in harmonic_mean(self) : ret.value = raw_estimate(self, harmonic)

\* C8: no HyperLogLog with m <= 0 and no SpectralBloomFilter with m <= 0 or
\* k <= 0 exists: a constructor given a non-positive m or k ends in an error.
C8_NoInvalidObject ==
    /\ \A self \in hll : self.m > 0
    /\ \A self \in sbf : self.m > 0 /\ self.k > 0
    /\ (call.op = "HyperLogLog" /\ call.m <= 0) => ret.raised # None
    /\ (call.op = "SpectralBloomFilter" /\ (call.m <= 0 \/ call.k <= 0))
       => ret.raised # None

\* check(x, apply_correction=True) with data_size None has just been called
MissingSizeCall ==
    /\ call.op = "check"
    /\ call.apply_correction
    /\ call.data_size = {}

\* C9: check(x, apply_correction=True) without data_size ends in ValueError
\* for every element and every counter state.
C9_AlwaysValueError ==
    \A self \in sbf : MissingSizeCall => ret.raised = "ValueError"

\* check(x, apply_correction=True, data_size=n) has just been called
CorrectedCall ==
    /\ call.op = "check"
    /\ call.apply_correction
    /\ call.data_size # {}

\* min over i in [0, k) of t[hash(x, i) mod m]; infinite over no i
MinCount(self, x) ==
    IF self.k <= 0 THEN FloatInf(FALSE)
    ELSE FloatOfInt(SetMin({self.t[hashing(self, x, i)] : i \in 0..(self.k - 1)}))

\* max(0, minCount - E_b)
Clamped(self, x, n) ==
    {LET difference == FloatSub(MinCount(self, x), E_b)
     IN  IF difference.neg THEN FloatZero ELSE difference :
        E_b \in get_expected_error(self, n)}

\* C10: check(x, apply_correction=True, data_size=n) with n >= 0 returns a
\* value >= 0, equal to max(0, minCount - E_b), for every element and every
\* counter state.
C10_AlwaysNonNegative ==
    \A self \in sbf :
        CorrectedCall
        => /\ ret.raised = None
           /\ ~ret.value.neg
           /\ ret.value \in Clamped(self, call.x, CHOOSE d \in call.data_size : TRUE)

\* the set bits among the remaining 128 - p high bits of a digest
HighBits(p, digest) == {j \in digest : j >= p}

\* the 1-indexed position, counted from bit 127 downwards, of the first set bit
\* of the remaining high bits; (128 - p) + 1 when none of them is set
FirstSetBitPosition(p, digest) ==
    IF HighBits(p, digest) = {} THEN (128 - p) + 1
    ELSE 128 - SetMax(HighBits(p, digest))

\* the number written in the low p bits of a digest
LowBitsValue(p, digest) == NatOfBits({j \in digest : j < p})

RegisterBound ==
    \A self \in hll :
        IsPowerOfTwo(self.m)
        => /\ 2^self.p = self.m
           /\ DOMAIN self.registers = 0..(self.m - 1)
           /\ \A i \in DOMAIN self.registers :
                  /\ 0 <= self.registers[i]
                  /\ self.registers[i] <= (128 - self.p) + 1

InsertWritesSelectedRegister ==
    \A self \in hll :
        (/\ IsPowerOfTwo(self.m)
         /\ call'.op = "insert"
         /\ Len(stream') = Len(stream) + 1)
        => LET digest == md5[call'.x]
               index == LowBitsValue(self.p, digest)
               rank == FirstSetBitPosition(self.p, digest)
           IN  /\ index = BitAnd(digest, self.m - 1)
               /\ rank >= 1
               /\ rank <= (128 - self.p) + 1
               /\ hll' = {[self EXCEPT !.registers =
                              [i \in 0..(self.m - 1) |->
                                  IF i = index THEN Max(self.registers[i], rank)
                                  ELSE self.registers[i]]]}

\* C11: on a HyperLogLog with power-of-two m and p = log2(m), every register
\* is always in 0 .. (128 - p) + 1, and each insert changes only the register
\* whose index is the low p bits of the digest (digest & (m - 1)), to
\* max(old, rank), where rank is the 1-indexed position of the first set bit
\* of the remaining 128 - p high bits, or (128 - p) + 1 when they are all zero.
C11_RegisterBound ==
    /\ []RegisterBound
    /\ [][InsertWritesSelectedRegister]_vars

\* C11 witness: with p >= 2, an insert of the zero digest has brought register
\* 0 to (128 - p) + 1, and the last insert wrote a rank between 2 and 128 - p
\* into another register, selected by non-zero low bits.
C11_Witness ==
    \E self \in hll :
        /\ IsPowerOfTwo(self.m)
        /\ self.p >= 2
        /\ call.op = "insert"
        /\ self.registers[0] = (128 - self.p) + 1
        /\ RegisterIndex(self, call.x) # 0
        /\ FirstSetBitPosition(self.p, md5[call.x]) >= 2
        /\ FirstSetBitPosition(self.p, md5[call.x]) <= 128 - self.p
        /\ self.registers[RegisterIndex(self, call.x)]
               = FirstSetBitPosition(self.p, md5[call.x])

====
